---------------------------- MODULE Spec2Model ----------------------------
(***************************************************************************)
(* Drift monitoring and automated retraining of the phishing classifier:   *)
(* DriftDetector.detect_drift, retrain_model, train_model and              *)
(* ModelMonitor.process_batch, with the files they read and write.         *)
(*                                                                         *)
(* Datasets (pandas DataFrames) are functions from column names to         *)
(* sequences of naturals, one entry per row.  Optional values (Python      *)
(* None, an absent file) are sequences of length 0 or 1.  p-values are     *)
(* exact rationals <<numerator, denominator>>.                             *)
(***************************************************************************)
EXTENDS Integers, Sequences, FiniteSets, TLC

(***************************************************************************)
(* Bounds of the model.                                                    *)
(***************************************************************************)
\* rows of a non-empty generated batch (batch_size of a request)
BatchRows == 4
\* rows drawn for the initial training set (sample_size of train_model)
TrainRows == 5

(***************************************************************************)
(* Optional values.                                                        *)
(***************************************************************************)
None == << >>
Some(x) == << x >>
IsNone(o) == Len(o) = 0
IsSome(o) == Len(o) = 1
Get(o) == o[1]

(***************************************************************************)
(* Datasets.                                                               *)
(***************************************************************************)
Label == "is_phishing"

\* the order in which the producers of a DataFrame insert its columns
ColumnOrder ==
    << "url_length", "num_special_chars", "has_ip_address", "https_token",
       "is_suspicious_tld", "has_suspicious_keyword", "is_phishing" >>

Columns(df) == DOMAIN df

NumRows(df) ==
    IF Columns(df) = {} THEN 0 ELSE Len(df[CHOOSE c \in Columns(df) : TRUE])

\* df.drop(columns=[c]); the caller checks that c is a column (KeyError otherwise)
DropColumn(df, c) == [k \in Columns(df) \ {c} |-> df[k]]

\* DataFrame.to_csv(index=False): a header line and one line per row
to_csv(df) ==
    LET header == SelectSeq(ColumnOrder, LAMBDA c : c \in Columns(df))
    IN  [ header |-> header,
          rows   |-> [i \in 1..NumRows(df) |->
                        [k \in 1..Len(header) |-> df[header[k]][i]]] ]

\* pd.read_csv of such a file: one column per header field
read_csv(file) ==
    LET pos(c) == CHOOSE k \in 1..Len(file.header) : file.header[k] = c
    IN  [c \in {file.header[k] : k \in 1..Len(file.header)} |->
            [i \in 1..Len(file.rows) |-> file.rows[i][pos(c)]]]

\* a file opened for writing ('w') and not written yet: it is empty
TruncatedCsv == [header |-> << >>, rows |-> << >>]

\* what pd.read_csv raises on such a file ("" when it returns)
read_csv_exc(file) == IF file.header = << >> THEN "EmptyDataError" ELSE ""

(***************************************************************************)
(* Exact rationals <<numerator, denominator>> with positive denominator.   *)
(***************************************************************************)
PLess(p, q) == p[1] * q[2] < q[1] * p[2]
PEq(p, q) == p[1] * q[2] = q[1] * p[2]
One == << 1, 1 >>
Abs(x) == IF x < 0 THEN 0 - x ELSE x

(***************************************************************************)
(* URLFeatureExtractor.  A URL is a sequence of tokens; the tables give    *)
(* each token's length and the number of listed special characters in it.  *)
(***************************************************************************)
TokenLen(tok) ==
    CASE tok = "https://" -> 8
      [] tok = "http://"  -> 7
      [] tok = "1.2.3.4"  -> 7
      [] tok = "login"    -> 5
      [] tok = ".com"     -> 4
      [] tok = ".xyz"     -> 4
      [] tok = "ab"       -> 2
      [] OTHER            -> 1

\* occurrences of '@','-','_','.','?','=','&','!','#','%','+','$',',','//'
TokenSpecial(tok) ==
    CASE tok = "https://" -> 1
      [] tok = "http://"  -> 1
      [] tok = "1.2.3.4"  -> 3
      [] tok = ".com"     -> 1
      [] tok = ".xyz"     -> 1
      [] tok = "-"        -> 1
      [] OTHER            -> 0

RECURSIVE SumSeq(_)
SumSeq(s) == IF s = << >> THEN 0 ELSE Head(s) + SumSeq(Tail(s))

suspicious_tlds == { ".xyz" }
suspicious_keywords == { "login" }

\* netloc of the URL, or its path up to the first '/' when it has no scheme
Hostname(url) ==
    LET rest  == IF url # << >> /\ Head(url) \in {"https://", "http://"}
                 THEN Tail(url) ELSE url
        stops == {k \in 1..Len(rest) : rest[k] = "/"}
        last  == IF stops = {} THEN Len(rest)
                 ELSE (CHOOSE k \in stops : \A j \in stops : k <= j) - 1
    IN  SubSeq(rest, 1, last)

extract_features(url) ==
    LET host == Hostname(url)
    IN  [ url_length             |-> SumSeq([k \in 1..Len(url) |-> TokenLen(url[k])]),
          num_special_chars      |-> SumSeq([k \in 1..Len(url) |-> TokenSpecial(url[k])]),
          has_ip_address         |-> IF \E k \in 1..Len(url) : url[k] = "1.2.3.4"
                                     THEN 1 ELSE 0,
          https_token            |-> IF url # << >> /\ Head(url) = "https://"
                                     THEN 1 ELSE 0,
          is_suspicious_tld      |-> IF host # << >> /\ host[Len(host)] \in suspicious_tlds
                                     THEN 1 ELSE 0,
          has_suspicious_keyword |-> IF \E k \in 1..Len(url) : url[k] \in suspicious_keywords
                                     THEN 1 ELSE 0 ]

ExtractedFeatures == DOMAIN extract_features(<< >>)

\* pd.DataFrame(list of feature dicts): one column per key
extract_features_batch(urls) ==
    [c \in ExtractedFeatures |-> [i \in 1..Len(urls) |-> extract_features(urls[i])[c]]]

\* 'good' -> 0, 'bad' -> 1, anything unmapped -> 0 (fillna)
MapLabel(l) == IF l \in {"bad", "malicious", "1"} THEN 1 ELSE 0

\* the rows of the URL dataset are <<url, label>> pairs; sampling keeps the
\* first sample_size rows
process_dataset(rows, sample_size) ==
    LET kept == IF sample_size > 0 /\ sample_size < Len(rows)
                THEN SubSeq(rows, 1, sample_size) ELSE rows
        feats == extract_features_batch([i \in 1..Len(kept) |-> kept[i][1]])
    IN  [c \in ExtractedFeatures \cup {Label} |->
            IF c = Label THEN [i \in 1..Len(kept) |-> MapLabel(kept[i][2])]
            ELSE feats[c]]

\* the URL dataset on disk (data/phishing_site_urls.csv)
UrlDataset ==
    << << << "https://", "ab", ".com" >>, "good" >>,
       << << "http://", "1.2.3.4", "/", "login" >>, "bad" >>,
       << << "https://", "ab", ".com", "/", "ab" >>, "good" >>,
       << << "http://", "ab", "-", "ab", ".xyz" >>, "bad" >>,
       << << "ab", ".com" >>, "good" >>,
       << << "https://", "login", ".xyz" >>, "bad" >> >>

(***************************************************************************)
(* PhishingDataGenerator.generate_data (synthetic branch).  The random     *)
(* draws of a call are one of RngDraws: the label of every row, and        *)
(* whether the rare per-class outcomes of has_ip_address come up.          *)
(***************************************************************************)
DriftTypes == { "none", "data_drift", "concept_drift" }

RngDraws ==
    { [y |-> "legit",  rare_ip |-> FALSE],
      [y |-> "mixed",  rare_ip |-> FALSE],
      [y |-> "legit",  rare_ip |-> TRUE] }

DrawLabel(draw, i) ==
    CASE draw.y = "legit" -> 0
      [] draw.y = "phish" -> 1
      [] OTHER            -> i % 2

generate_data(n_samples, drift_type, draw) ==
    LET y(i) == DrawLabel(draw, i)
        base_len(i) == IF y(i) = 0 THEN 25 ELSE 60
        url_length(i) ==
            IF drift_type = "concept_drift" THEN (IF y(i) = 1 THEN 30 ELSE base_len(i))
            ELSE IF drift_type = "data_drift" THEN base_len(i) + 20
            ELSE base_len(i)
        ip(i) == IF y(i) = 0 THEN (IF draw.rare_ip THEN 1 ELSE 0)
                 ELSE (IF draw.rare_ip THEN 0 ELSE 1)
    IN  [c \in {"url_length", "num_special_chars", "has_ip_address", "https_token", Label} |->
          [i \in 1..n_samples |->
            CASE c = "url_length"        -> url_length(i)
              [] c = "num_special_chars" -> IF y(i) = 0 THEN 1 ELSE 4
              [] c = "has_ip_address"    -> ip(i)
              [] c = "https_token"       -> IF y(i) = 0 THEN 1 ELSE 0
              [] OTHER                   -> y(i)]]

(***************************************************************************)
(* scipy.stats.ks_2samp (exact two-sided p-value) and chi2_contingency.    *)
(***************************************************************************)
SeqRange(s) == {s[i] : i \in 1..Len(s)}
CountLeq(s, v) == Cardinality({i \in 1..Len(s) : s[i] <= v})
CountEq(s, v) == Cardinality({i \in 1..Len(s) : s[i] = v})
MaxOf(S) == CHOOSE x \in S : \A z \in S : z <= x

\* lattice paths from (0,0) to (i,j) on which |i*m - j*n| < h at every point
RECURSIVE PathsInside(_, _, _, _, _)
PathsInside(i, j, n, m, h) ==
    IF Abs(i * m - j * n) >= h THEN 0
    ELSE IF i = 0 /\ j = 0 THEN 1
    ELSE (IF i > 0 THEN PathsInside(i - 1, j, n, m, h) ELSE 0)
       + (IF j > 0 THEN PathsInside(i, j - 1, n, m, h) ELSE 0)

\* [exc, p_value]: ValueError on an empty sample, else P(D >= d) over all
\* C(n+m, n) interleavings, d the largest distance of the empirical CDFs
ks_2samp(ref_values, new_values) ==
    LET n == Len(ref_values)
        m == Len(new_values)
        vals == SeqRange(ref_values) \cup SeqRange(new_values)
        h == MaxOf({Abs(m * CountLeq(ref_values, v) - n * CountLeq(new_values, v)) : v \in vals})
        total == PathsInside(n, m, n, m, n * m + 1)
    IN  IF n = 0 \/ m = 0 THEN [exc |-> "ValueError", p_value |-> One]
        ELSE IF h = 0 THEN [exc |-> "", p_value |-> One]
        ELSE [exc |-> "", p_value |-> << total - PathsInside(n, m, n, m, h), total >>]

\* survival function of the chi-square distribution with one degree of
\* freedom, by the band of the statistic sn/sd between tabulated quantiles
Chi2Sf(sn, sd) ==
    IF sn = 0 THEN One
    ELSE IF 1000 * sn <= 455 * sd THEN << 3, 4 >>
    ELSE IF 1000 * sn <= 2706 * sd THEN << 1, 4 >>
    ELSE IF 1000 * sn <= 3841 * sd THEN << 3, 40 >>
    ELSE IF 1000 * sn <= 6635 * sd THEN << 1, 40 >>
    ELSE << 1, 200 >>

\* a 2 x 2 table <<a, b>>, <<c, d>> (one degree of freedom, Yates' correction):
\* ValueError when an expected frequency is zero
chi2_contingency(table) ==
    LET a == table[1][1]
        b == table[1][2]
        c == table[2][1]
        d == table[2][2]
        N == a + b + c + d
        margins == (a + b) * (c + d) * (a + c) * (b + d)
        diff == 2 * Abs(a * d - b * c) - N
        adj == IF diff > 0 THEN diff ELSE 0
    IN  IF margins = 0 THEN [exc |-> "ValueError", p_value |-> One]
        ELSE [exc |-> "", p_value |-> Chi2Sf(adj * adj * N, 4 * margins)]

(***************************************************************************)
(* DriftDetector.detect_drift.                                             *)
(***************************************************************************)
p_value_threshold == << 1, 20 >>

numerical_features == << "url_length", "num_special_chars" >>
categorical_features == << "has_ip_address", "https_token" >>

RECURSIVE SortedSeq(_)
SortedSeq(S) ==
    IF S = {} THEN << >>
    ELSE LET lo == CHOOSE x \in S : \A z \in S : x <= z
         IN  << lo >> \o SortedSeq(S \ {lo})

\* variant: the comparison with the threshold is not strict
Verdict_Inclusive(test, p_value) ==
    [ test |-> test,
      p_value |-> p_value,
      drift_detected |-> PLess(p_value, p_value_threshold) \/ PEq(p_value, p_value_threshold) ]

\* lines 29-34 and 70-75: the verdict recorded for a feature
Verdict(test, p_value) ==
    [ test |-> test,
      p_value |-> p_value,
      drift_detected |-> PLess(p_value, p_value_threshold) ]

\* variant: the flag is overwritten by each feature's verdict
FlagAfter_Overwrite(drift_detected, is_drift) == is_drift

\* lines 35-36 and 76-77: the global flag after a feature's verdict
FlagAfter(drift_detected, is_drift) == IF is_drift THEN TRUE ELSE drift_detected

\* one pass of the first loop: [exc, verdict]
NumericalVerdict(reference, new_data, feature) ==
    IF feature \notin Columns(reference) \/ feature \notin Columns(new_data)
    THEN [exc |-> "KeyError", verdict |-> None]
    ELSE LET ks == ks_2samp(reference[feature], new_data[feature])
         IN  IF ks.exc # "" THEN [exc |-> ks.exc, verdict |-> None]
             ELSE [exc |-> "", verdict |-> Some(Verdict("KS", ks.p_value))]

\* variant: a table of two categories is taken as inconclusive too
CategoricalVerdict_TwoInconclusive(reference, new_data, feature) ==
    IF feature \notin Columns(reference) \/ feature \notin Columns(new_data)
    THEN [exc |-> "KeyError", verdict |-> None]
    ELSE LET ref == reference[feature]
             new == new_data[feature]
             all_categories == SortedSeq(SeqRange(ref) \cup SeqRange(new))
             ref_freq == [k \in 1..Len(all_categories) |-> CountEq(ref, all_categories[k])]
             new_freq == [k \in 1..Len(all_categories) |-> CountEq(new, all_categories[k])]
             keep == {k \in 1..Len(all_categories) : ref_freq[k] + new_freq[k] > 0}
             cols == SortedSeq(keep)
             contingency_table ==
                 << [k \in 1..Len(cols) |-> ref_freq[cols[k]]],
                    [k \in 1..Len(cols) |-> new_freq[cols[k]]] >>
             chi == IF Len(cols) <= 2 THEN [exc |-> "", p_value |-> One]
                    ELSE chi2_contingency(contingency_table)
         IN  IF chi.exc # "" THEN [exc |-> chi.exc, verdict |-> None]
             ELSE [exc |-> "", verdict |-> Some(Verdict("Chi-Square", chi.p_value))]

\* one pass of the second loop: [exc, verdict].  The categorical columns are
\* binary in every producer, so the table has at most two columns.
CategoricalVerdict(reference, new_data, feature) ==
    IF feature \notin Columns(reference) \/ feature \notin Columns(new_data)
    THEN [exc |-> "KeyError", verdict |-> None]
    ELSE LET ref == reference[feature]
             new == new_data[feature]
             all_categories == SortedSeq(SeqRange(ref) \cup SeqRange(new))
             ref_freq == [k \in 1..Len(all_categories) |-> CountEq(ref, all_categories[k])]
             new_freq == [k \in 1..Len(all_categories) |-> CountEq(new, all_categories[k])]
             keep == {k \in 1..Len(all_categories) : ref_freq[k] + new_freq[k] > 0}
             cols == SortedSeq(keep)
             contingency_table ==
                 << [k \in 1..Len(cols) |-> ref_freq[cols[k]]],
                    [k \in 1..Len(cols) |-> new_freq[cols[k]]] >>
             chi == IF Len(cols) < 2 THEN [exc |-> "", p_value |-> One]
                    ELSE chi2_contingency(contingency_table)
         IN  IF chi.exc # "" THEN [exc |-> chi.exc, verdict |-> None]
             ELSE [exc |-> "", verdict |-> Some(Verdict("Chi-Square", chi.p_value))]

\* variant: a feature missing from either frame is skipped as inconclusive
FeatureVerdict_SoftSkip(reference, new_data, feature) ==
    IF feature \notin Columns(reference) \/ feature \notin Columns(new_data)
    THEN [exc |-> "", verdict |-> Some(Verdict("KS", One))]
    ELSE IF \E k \in 1..Len(numerical_features) : numerical_features[k] = feature
    THEN NumericalVerdict(reference, new_data, feature)
    ELSE CategoricalVerdict(reference, new_data, feature)

FeatureVerdict(reference, new_data, feature) ==
    IF \E k \in 1..Len(numerical_features) : numerical_features[k] = feature
    THEN NumericalVerdict(reference, new_data, feature)
    ELSE CategoricalVerdict(reference, new_data, feature)

\* the two loops, feature by feature; acc holds the locals report and
\* drift_detected; an exception leaves the function with no return value
RECURSIVE DetectLoop(_, _, _, _)
DetectLoop(reference, new_data, todo, acc) ==
    IF todo = << >> THEN [exc |-> "", value |-> Some(acc)]
    ELSE LET feature == Head(todo)
             r == FeatureVerdict(reference, new_data, feature)
         IN  IF r.exc # "" THEN [exc |-> r.exc, value |-> None]
             ELSE DetectLoop(reference, new_data, Tail(todo),
                     [ report |-> [f \in DOMAIN acc.report \cup {feature} |->
                                      IF f = feature THEN Get(r.verdict) ELSE acc.report[f]],
                       drift_detected |-> FlagAfter(acc.drift_detected,
                                                    Get(r.verdict).drift_detected) ])

EmptyReport == [f \in {} |-> One]

\* [exc, value]: value is Some([drift_detected, report]) when it returns
detect_drift(reference, new_data) ==
    DetectLoop(reference, new_data, numerical_features \o categorical_features,
               [report |-> EmptyReport, drift_detected |-> FALSE])

(***************************************************************************)
(* Artifacts on disk.  models/reference_data.csv and                       *)
(* models/phishing_model.pkl exist once per directory: "cwd" is the working *)
(* directory of the monitoring process, where the relative paths of        *)
(* retrain.py resolve; "project" is the project root when the process is   *)
(* started elsewhere (web/app.py configures its absolute path).            *)
(***************************************************************************)
Dirs == { "cwd", "project" }
HardCodedDir == "cwd"

\* RandomForestClassifier(...).fit(X, y): the artifact is determined by its
\* training data
Fit(X, y) == [X |-> X, y |-> y]

\* a step of a write (opening the file, writing its content) returns or raises
IoOutcomes == { "ok", "error" }

\* models/phishing_model.pkl opened for writing ('wb') and not written yet
TruncatedPickle == [X |-> << >>, y |-> << >>]
FitOutcomes == { "ok", "error" }

\* train_test_split(test_size=0.2): n_test = ceil(0.2 * n); the rows kept for
\* training are taken to be the first n - n_test
TrainRowsOf(df) ==
    LET n == NumRows(df)
        n_train == n - ((n + 4) \div 5)
    IN  [c \in Columns(df) |-> SubSeq(df[c], 1, n_train)]

\* the draws of PhishingDataGenerator(random_state=42)
Seed42Draw == [y |-> "legit", rare_ip |-> FALSE]

\* train_model: the pair of artifacts it saves
train_model(use_real_data, dataset_present) ==
    LET df == IF use_real_data /\ dataset_present
              THEN process_dataset(UrlDataset, TrainRows)
              ELSE generate_data(TrainRows, "none", Seed42Draw)
        train == TrainRowsOf(df)
        X_train == DropColumn(train, Label)
    IN  [ model |-> Some(Fit(X_train, train[Label])),
          ref   |-> Some(to_csv(X_train)) ]

\* a reference CSV placed by hand, written before https_token was a feature
ForeignReference ==
    to_csv(DropColumn(DropColumn(TrainRowsOf(generate_data(TrainRows, "none", Seed42Draw)),
                                 Label), "https_token"))

\* the artifacts of each way train_model can run
SavedByTrain == [real \in BOOLEAN |-> [present \in BOOLEAN |-> train_model(real, present)]]

EmptyStore == [model |-> None, ref |-> None]

\* what a models/ directory can hold when the Monitor is constructed; only the
\* directory the Monitor reads can hold a reference placed by hand, and a
\* directory the process never touches is left out (empty)
InitialStores(d, path) ==
    IF d \notin {HardCodedDir, path} THEN { EmptyStore }
    ELSE { EmptyStore, SavedByTrain[FALSE][FALSE], SavedByTrain[TRUE][TRUE] }
         \cup (IF d = path THEN { [model |-> None, ref |-> Some(ForeignReference)] } ELSE {})

(***************************************************************************)
(* State.                                                                  *)
(***************************************************************************)
Callers == { "main" }

BatchSizes == { 0, BatchRows }

VARIABLES
    reference_data_path,  \* directory of ModelMonitor.reference_data_path
    refFile,              \* [Dirs -> optional CSV]: models/reference_data.csv
    modelFile,            \* [Dirs -> optional pickle]: models/phishing_model.pkl
    reference_data,       \* ModelMonitor.reference_data (optional DataFrame)
    detector,             \* ModelMonitor.detector: optional, its reference_data
    pc,                   \* [Callers -> position inside process_batch]
    new_data,             \* [Callers -> optional DataFrame], local of process_batch
    clf,                  \* [Callers -> optional model], local of retrain_model
    result,               \* [Callers -> optional outcome of the call]
    seen,                 \* [Callers -> observations of the current call]
    left,                 \* reference_data when the last call ended (or at construction)
    phishing_model,       \* web/app.py: the model the prediction boundary loaded
    torn_reads            \* artifacts read while a retrain had them open for writing

vars == << reference_data_path, refFile, modelFile, reference_data, detector,
           pc, new_data, clf, result, seen, left, phishing_model, torn_reads >>

\* a read of the reference in directory d that meets the file emptied by a
\* retrain which has not written it yet
TornReference(d) ==
    IF /\ d = HardCodedDir
       /\ refFile[d] = Some(TruncatedCsv)
       /\ \E u \in DOMAIN pc : pc[u] = "writing"
    THEN { "reference" } ELSE {}

\* the same for the model
TornModel(d) ==
    IF /\ d = HardCodedDir
       /\ modelFile[d] = Some(TruncatedPickle)
       /\ \E u \in DOMAIN pc : pc[u] = "dumping"
    THEN { "model" } ELSE {}

\* variant: the detector is built from the file at the hard-coded path
load_reference_data_OtherDetector(files, path) ==
    IF IsNone(files[path])
    THEN [ok |-> FALSE, exc |-> "", reference_data |-> None, detector |-> None]
    ELSE IF read_csv_exc(Get(files[path])) # ""
    THEN [ok |-> FALSE, exc |-> read_csv_exc(Get(files[path])),
          reference_data |-> None, detector |-> None]
    ELSE [ok |-> TRUE, exc |-> "",
          reference_data |-> Some(read_csv(Get(files[path]))),
          detector |-> IF IsSome(files[HardCodedDir])
                          /\ read_csv_exc(Get(files[HardCodedDir])) = ""
                       THEN Some(read_csv(Get(files[HardCodedDir])))
                       ELSE Some(read_csv(Get(files[path])))]

\* variant: the handler of FileNotFoundError returns True as well
load_reference_data_ReturnsTrue(files, path) ==
    IF IsNone(files[path])
    THEN [ok |-> TRUE, exc |-> "", reference_data |-> None, detector |-> None]
    ELSE IF read_csv_exc(Get(files[path])) # ""
    THEN [ok |-> FALSE, exc |-> read_csv_exc(Get(files[path])),
          reference_data |-> None, detector |-> None]
    ELSE [ok |-> TRUE, exc |-> "",
          reference_data |-> Some(read_csv(Get(files[path]))),
          detector |-> Some(read_csv(Get(files[path])))]

\* ModelMonitor.load_reference_data against the files: the value it returns
\* and the new attributes.  FileNotFoundError is the one exception it
\* handles; with any other (exc # "") it is left at line 22, before either
\* attribute is assigned, and the caller keeps the attributes it had.
load_reference_data(files, path) ==
    IF IsNone(files[path])
    THEN [ok |-> FALSE, exc |-> "", reference_data |-> None, detector |-> None]
    ELSE IF read_csv_exc(Get(files[path])) # ""
    THEN [ok |-> FALSE, exc |-> read_csv_exc(Get(files[path])),
          reference_data |-> None, detector |-> None]
    ELSE [ok |-> TRUE, exc |-> "",
          reference_data |-> Some(read_csv(Get(files[path]))),
          detector |-> Some(read_csv(Get(files[path])))]

NoObservation ==
    [ held_at_start  |-> None,     \* reference_data when the call began
      left_by_prev   |-> None,     \* reference_data when the previous call ended
      loaded         |-> FALSE,    \* the call loaded the reference itself
      used           |-> None,     \* the reference detect_drift compared against
      held_at_detect |-> None,     \* reference_data when detect_drift returned
      batch_after    |-> None,     \* the batch when detect_drift returned
      detected       |-> FALSE,    \* detect_drift has been called and has ended
      flagged        |-> FALSE,    \* ... and returned drift_detected = True
      replay         |-> FALSE,    \* the batch is the previous call's, whose retrain completed
      ref_before     |-> [d \in Dirs |-> None],
      model_before   |-> [d \in Dirs |-> None],
      retrain        |-> "not_called",
      retrain_arg    |-> None,
      retrain_after_detect |-> FALSE,
      failed_at      |-> "",
      ref_after      |-> [d \in Dirs |-> None],   \* the files and the held
      model_after    |-> [d \in Dirs |-> None],   \* reference when the call
      held_after     |-> None ]                   \* returned

\* the observations of a call, completed when it returns
AtReturn(obs, refs, models, held) ==
    [obs EXCEPT !.ref_after = refs, !.model_after = models, !.held_after = held]

\* variant: every batch is handed to the Retrainer
NextAfterDetect_Always(drift_detected) == "retrain"

\* line 54: where process_batch goes after detection
NextAfterDetect(drift_detected) == IF drift_detected THEN "retrain" ELSE "returned"

\* variant: a call that had to load the reference returns the error anyway
ReadyAfterLoad_NextCallOnly(had_detector, loaded) == had_detector

\* lines 36-38: the call goes on when there is a detector, or the load succeeded
ReadyAfterLoad(had_detector, loaded) == had_detector \/ loaded

Init ==
    /\ reference_data_path \in Dirs
    /\ \E here \in InitialStores("cwd", reference_data_path),
          there \in InitialStores("project", reference_data_path) :
          /\ refFile = [d \in Dirs |-> IF d = "cwd" THEN here.ref ELSE there.ref]
          /\ modelFile = [d \in Dirs |-> IF d = "cwd" THEN here.model ELSE there.model]
    /\ reference_data = load_reference_data(refFile, reference_data_path).reference_data
    /\ detector = load_reference_data(refFile, reference_data_path).detector
    /\ pc = [t \in Callers |-> "idle"]
    /\ new_data = [t \in Callers |-> None]
    /\ clf = [t \in Callers |-> None]
    /\ result = [t \in Callers |-> None]
    /\ seen = [t \in Callers |-> NoObservation]
    /\ left = reference_data
    /\ phishing_model = None
    /\ torn_reads = {}

Quiet == \A t \in Callers : pc[t] \in {"idle", "returned"}

ErrorResult == [kind |-> "error", error |-> "Reference data not found. Train model first."]
Raised(exc) == [kind |-> "raised", exc |-> exc]

(***************************************************************************)
(* process_batch, statement by statement.                                  *)
(***************************************************************************)
\* lines 36-41: the call begins; a Monitor without detector loads first; the
\* batch provider is asked only when a detector is there
Enter(t, batch_size, drift_type, draw) ==
    /\ clf' = [clf EXCEPT ![t] = None]
    /\ LET load == load_reference_data(refFile, reference_data_path)
           start == [NoObservation EXCEPT
                        !.held_at_start = reference_data,
                        !.left_by_prev = left,
                        !.loaded = IsNone(detector),
                        !.replay = /\ seen[t].retrain = "completed"
                                   /\ new_data[t] =
                                        Some(generate_data(batch_size, drift_type, draw)),
                        !.ref_before = refFile,
                        !.model_before = modelFile]
           ready == ReadyAfterLoad(IsSome(detector), load.ok)
           kept == IsSome(detector) \/ load.exc # ""
       IN  /\ seen' = [seen EXCEPT ![t] =
                         IF ready THEN start
                         ELSE AtReturn(start, refFile, modelFile,
                                       IF kept THEN reference_data
                                       ELSE load.reference_data)]
           /\ IF kept
              THEN UNCHANGED << reference_data, detector >>
              ELSE /\ reference_data' = load.reference_data
                   /\ detector' = load.detector
           /\ IF ready
              THEN /\ new_data' = [new_data EXCEPT ![t] =
                                     Some(generate_data(batch_size, drift_type, draw))]
                   /\ pc' = [pc EXCEPT ![t] = "detect"]
                   /\ result' = [result EXCEPT ![t] = None]
              ELSE /\ new_data' = [new_data EXCEPT ![t] = None]
                   /\ pc' = [pc EXCEPT ![t] = "returned"]
                   /\ result' = [result EXCEPT ![t] =
                                   IF load.exc # "" THEN Some(Raised(load.exc))
                                   ELSE Some(ErrorResult)]
           /\ left' = IF ready THEN left ELSE reference_data'
    /\ torn_reads' = torn_reads \cup (IF IsNone(detector)
                                       THEN TornReference(reference_data_path) ELSE {})
    /\ UNCHANGED << reference_data_path, refFile, modelFile, phishing_model >>

\* run_monitoring_loop and the dashboard make their calls one after another
Begin(t, batch_size, drift_type, draw) ==
    /\ Quiet
    /\ Enter(t, batch_size, drift_type, draw)

\* lines 42-52 (and 61 without drift): detection and the result record
Detect(t) ==
    /\ pc[t] = "detect"
    /\ UNCHANGED << reference_data_path, refFile, modelFile, reference_data, detector,
                    new_data, clf >>
    /\ LET features_only == DropColumn(Get(new_data[t]), Label)
           d == IF IsNone(detector) THEN [exc |-> "AttributeError", value |-> None]
                ELSE detect_drift(Get(detector), features_only)
           next == IF d.exc # "" THEN "returned"
                   ELSE NextAfterDetect(Get(d.value).drift_detected)
           obs == [seen[t] EXCEPT !.used = detector,
                                  !.held_at_detect = reference_data',
                                  !.batch_after = new_data'[t],
                                  !.detected = TRUE,
                                  !.flagged = (d.exc = "" /\ Get(d.value).drift_detected)]
       IN  /\ result' = [result EXCEPT ![t] =
                           IF d.exc # "" THEN Some(Raised(d.exc))
                           ELSE Some([ kind |-> "cycle",
                                       data |-> Get(new_data[t]),
                                       drift_detected |-> Get(d.value).drift_detected,
                                       drift_report |-> Get(d.value).report,
                                       retrained |-> FALSE ])]
           /\ pc' = [pc EXCEPT ![t] = next]
           /\ seen' = [seen EXCEPT ![t] =
                         IF next = "returned"
                         THEN AtReturn(obs, refFile', modelFile', reference_data')
                         ELSE obs]
           /\ left' = IF next = "returned" THEN reference_data' ELSE left
    /\ UNCHANGED << phishing_model, torn_reads >>

(***************************************************************************)
(* retrain_model(new_data), called at line 56.                             *)
(***************************************************************************)
RetrainFailed(t, where) ==
    /\ seen' = [seen EXCEPT ![t] =
                  [@ EXCEPT !.retrain = "failed",
                            !.failed_at = where,
                            !.retrain_arg = new_data[t],
                            !.retrain_after_detect = seen[t].detected]]
    /\ pc' = [pc EXCEPT ![t] = "reload"]

\* variant: the new reference is written before the model is fitted
RetrainFit_ReferenceFirst(t, fit) ==
    /\ pc[t] = "retrain"
    /\ LET new_batch_data == Get(new_data[t])
       IN  IF IsNone(refFile[HardCodedDir])
              \/ read_csv_exc(Get(refFile[HardCodedDir])) # ""
           THEN RetrainFailed(t, "read") /\ UNCHANGED << clf, refFile >>
           ELSE IF Label \notin Columns(new_batch_data)
           THEN RetrainFailed(t, "label") /\ UNCHANGED << clf, refFile >>
           ELSE /\ refFile' = [refFile EXCEPT ![HardCodedDir] =
                                 Some(to_csv(DropColumn(new_batch_data, Label)))]
                /\ IF fit = "error"
                   THEN RetrainFailed(t, "fit") /\ UNCHANGED clf
                   ELSE /\ clf' = [clf EXCEPT ![t] =
                                     Some(Fit(DropColumn(new_batch_data, Label),
                                              new_batch_data[Label]))]
                        /\ seen' = [seen EXCEPT ![t] =
                                      [@ EXCEPT !.retrain = "running",
                                                !.retrain_arg = new_data[t],
                                                !.retrain_after_detect = seen[t].detected]]
                        /\ pc' = [pc EXCEPT ![t] = "dump"]
    /\ UNCHANGED << reference_data_path, modelFile, reference_data, detector,
                    new_data, result, left >>
    /\ torn_reads' = torn_reads \cup TornReference(HardCodedDir)
    /\ UNCHANGED phishing_model

\* retrain.py lines 12-33: read the old reference, split off the label, fit
RetrainFit(t, fit) ==
    /\ pc[t] = "retrain"
    /\ LET new_batch_data == Get(new_data[t])
       IN  IF IsNone(refFile[HardCodedDir])
              \/ read_csv_exc(Get(refFile[HardCodedDir])) # ""
           THEN RetrainFailed(t, "read") /\ UNCHANGED clf
           ELSE IF Label \notin Columns(new_batch_data)
           THEN RetrainFailed(t, "label") /\ UNCHANGED clf
           ELSE IF fit = "error"
           THEN RetrainFailed(t, "fit") /\ UNCHANGED clf
           ELSE /\ clf' = [clf EXCEPT ![t] =
                             Some(Fit(DropColumn(new_batch_data, Label), new_batch_data[Label]))]
                /\ seen' = [seen EXCEPT ![t] =
                              [@ EXCEPT !.retrain = "running",
                                        !.retrain_arg = new_data[t],
                                        !.retrain_after_detect = seen[t].detected]]
                /\ pc' = [pc EXCEPT ![t] = "dump"]
    /\ UNCHANGED << reference_data_path, refFile, modelFile, reference_data, detector,
                    new_data, result, left >>
    /\ torn_reads' = torn_reads \cup TornReference(HardCodedDir)
    /\ UNCHANGED phishing_model

\* retrain.py line 36, first half: joblib.dump opens the file for writing,
\* which empties it
RetrainDumpOpen(t, io) ==
    /\ pc[t] = "dump"
    /\ IF io = "ok"
       THEN /\ modelFile' = [modelFile EXCEPT ![HardCodedDir] = Some(TruncatedPickle)]
            /\ pc' = [pc EXCEPT ![t] = "dumping"]
            /\ UNCHANGED seen
       ELSE /\ RetrainFailed(t, "dump")
            /\ UNCHANGED modelFile
    /\ UNCHANGED << reference_data_path, refFile, reference_data, detector,
                    new_data, clf, result, left >>
    /\ UNCHANGED << phishing_model, torn_reads >>

\* retrain.py line 36, second half: the pickle is written and the file closed
RetrainDump(t, io) ==
    /\ pc[t] = "dumping"
    /\ IF io = "ok"
       THEN /\ modelFile' = [modelFile EXCEPT ![HardCodedDir] = clf[t]]
            /\ pc' = [pc EXCEPT ![t] = "to_csv"]
            /\ UNCHANGED seen
       ELSE /\ RetrainFailed(t, "dump")
            /\ UNCHANGED modelFile
    /\ UNCHANGED << reference_data_path, refFile, reference_data, detector,
                    new_data, clf, result, left >>
    /\ UNCHANGED << phishing_model, torn_reads >>

\* retrain.py line 41, first half: to_csv opens the file for writing, which
\* empties it
RetrainToCsvOpen(t, io) ==
    /\ pc[t] = "to_csv"
    /\ IF io = "ok"
       THEN /\ refFile' = [refFile EXCEPT ![HardCodedDir] = Some(TruncatedCsv)]
            /\ pc' = [pc EXCEPT ![t] = "writing"]
            /\ UNCHANGED seen
       ELSE /\ RetrainFailed(t, "to_csv")
            /\ UNCHANGED refFile
    /\ UNCHANGED << reference_data_path, modelFile, reference_data, detector,
                    new_data, clf, result, left >>
    /\ UNCHANGED << phishing_model, torn_reads >>

\* retrain.py line 41, second half: the header and the rows are written and
\* the file closed
RetrainToCsv(t, io) ==
    /\ pc[t] = "writing"
    /\ LET X_new == DropColumn(Get(new_data[t]), Label)
       IN  IF io = "ok"
           THEN /\ refFile' = [refFile EXCEPT ![HardCodedDir] = Some(to_csv(X_new))]
                /\ seen' = [seen EXCEPT ![t] = [@ EXCEPT !.retrain = "completed"]]
                /\ pc' = [pc EXCEPT ![t] = "reload"]
           ELSE /\ RetrainFailed(t, "to_csv")
                /\ UNCHANGED refFile
    /\ UNCHANGED << reference_data_path, modelFile, reference_data, detector,
                    new_data, clf, result, left >>
    /\ UNCHANGED << phishing_model, torn_reads >>

\* monitor.py lines 58-61: reload the reference, mark the result, return;
\* an exception of the reload ends the call instead
Reload(t) ==
    /\ pc[t] = "reload"
    /\ LET load == load_reference_data(refFile, reference_data_path)
       IN  /\ IF load.exc # ""
              THEN /\ UNCHANGED << reference_data, detector >>
                   /\ result' = [result EXCEPT ![t] = Some(Raised(load.exc))]
              ELSE /\ reference_data' = load.reference_data
                   /\ detector' = load.detector
                   /\ result' = [result EXCEPT ![t] =
                                   Some([Get(@) EXCEPT !.retrained = TRUE])]
           /\ left' = reference_data'
           /\ seen' = [seen EXCEPT ![t] =
                         AtReturn(@, refFile, modelFile, reference_data')]
    /\ pc' = [pc EXCEPT ![t] = "returned"]
    /\ UNCHANGED << reference_data_path, refFile, modelFile, new_data, clf >>
    /\ torn_reads' = torn_reads \cup TornReference(reference_data_path)
    /\ UNCHANGED phishing_model

(***************************************************************************)
(* train.py run in directory d while no call is in progress.               *)
(***************************************************************************)
Train(d, use_real_data, dataset_present) ==
    /\ Quiet
    /\ d \in {HardCodedDir, reference_data_path}
    /\ LET saved == SavedByTrain[use_real_data][dataset_present]
       IN  /\ modelFile' = [modelFile EXCEPT ![d] = saved.model]
           /\ refFile' = [refFile EXCEPT ![d] = saved.ref]
    /\ UNCHANGED << reference_data_path, reference_data, detector,
                    pc, new_data, clf, result, seen, left >>
    /\ UNCHANGED << phishing_model, torn_reads >>

Next ==
    \/ \E t \in Callers, b \in BatchSizes, k \in DriftTypes, draw \in RngDraws :
          Begin(t, b, k, draw)
    \/ \E t \in Callers : Detect(t)
    \/ \E t \in Callers, fit \in FitOutcomes : RetrainFit(t, fit)
    \/ \E t \in Callers, io \in IoOutcomes : RetrainDumpOpen(t, io)
    \/ \E t \in Callers, io \in IoOutcomes : RetrainDump(t, io)
    \/ \E t \in Callers, io \in IoOutcomes : RetrainToCsvOpen(t, io)
    \/ \E t \in Callers, io \in IoOutcomes : RetrainToCsv(t, io)
    \/ \E t \in Callers : Reload(t)
    \/ \E d \in Dirs, real \in BOOLEAN, present \in BOOLEAN : Train(d, real, present)

Spec == Init /\ [][Next]_vars

(***************************************************************************)
(* retrain_model called on its own (it is a public function of retrain.py) *)
(* with a frame of the caller's choice, labeled or not.                    *)
(***************************************************************************)
\* what a call that returned None leaves its caller with
ReturnedNone == [kind |-> "none"]

\* the frames handed to retrain_model: generated batches, with and without
\* their label column
RetrainArguments ==
    LET labeled == { generate_data(BatchRows, k, draw) : k \in DriftTypes, draw \in RngDraws }
    IN  labeled \cup { DropColumn(b, Label) : b \in labeled }

\* retrain.py line 6: the call
RetrainCall(t, batch) ==
    /\ Quiet
    /\ new_data' = [new_data EXCEPT ![t] = Some(batch)]
    /\ clf' = [clf EXCEPT ![t] = None]
    /\ result' = [result EXCEPT ![t] = None]
    /\ seen' = [seen EXCEPT ![t] =
                  [NoObservation EXCEPT !.held_at_start = reference_data,
                                        !.left_by_prev = left,
                                        !.ref_before = refFile,
                                        !.model_before = modelFile]]
    /\ pc' = [pc EXCEPT ![t] = "retrain"]
    /\ UNCHANGED << reference_data_path, refFile, modelFile, reference_data, detector, left >>
    /\ UNCHANGED << phishing_model, torn_reads >>

\* retrain.py lines 42 and 45: the function ends, after the last statement of
\* the try block or after the handler, and returns None either way
RetrainReturn(t) ==
    /\ pc[t] = "reload"
    /\ result' = [result EXCEPT ![t] = Some(ReturnedNone)]
    /\ seen' = [seen EXCEPT ![t] = AtReturn(@, refFile, modelFile, reference_data)]
    /\ pc' = [pc EXCEPT ![t] = "returned"]
    /\ UNCHANGED << reference_data_path, refFile, modelFile, reference_data, detector,
                    new_data, clf, left >>
    /\ UNCHANGED << phishing_model, torn_reads >>

NextRetrain ==
    \/ \E t \in Callers, batch \in RetrainArguments : RetrainCall(t, batch)
    \/ \E t \in Callers, fit \in FitOutcomes : RetrainFit(t, fit)
    \/ \E t \in Callers, io \in IoOutcomes : RetrainDumpOpen(t, io)
    \/ \E t \in Callers, io \in IoOutcomes : RetrainDump(t, io)
    \/ \E t \in Callers, io \in IoOutcomes : RetrainToCsvOpen(t, io)
    \/ \E t \in Callers, io \in IoOutcomes : RetrainToCsv(t, io)
    \/ \E t \in Callers : RetrainReturn(t)

SpecRetrain == Init /\ [][NextRetrain]_vars

(***************************************************************************)
(* web/app.py: one Monitor shared by the handlers of /api/process_batch,   *)
(* each request served on a thread of its own (app.run serves threaded),   *)
(* so calls of process_batch overlap; nothing in monitor.py or retrain.py  *)
(* takes a lock.                                                           *)
(***************************************************************************)
Requests == { "r1", "r2" }

\* the requests' drift_type and the draws of their batches
RequestDriftTypes == { "none", "data_drift" }
RequestDraws == { draw \in RngDraws : draw.y = "legit" }

\* the application starts with the artifacts train.py saved
InitWeb ==
    /\ reference_data_path \in Dirs
    /\ refFile = [d \in Dirs |-> IF d \in {HardCodedDir, reference_data_path}
                                  THEN SavedByTrain[FALSE][FALSE].ref ELSE None]
    /\ modelFile = [d \in Dirs |-> IF d \in {HardCodedDir, reference_data_path}
                                    THEN SavedByTrain[FALSE][FALSE].model ELSE None]
    /\ reference_data = load_reference_data(refFile, reference_data_path).reference_data
    /\ detector = load_reference_data(refFile, reference_data_path).detector
    /\ pc = [t \in Requests |-> "idle"]
    /\ new_data = [t \in Requests |-> None]
    /\ clf = [t \in Requests |-> None]
    /\ result = [t \in Requests |-> None]
    /\ seen = [t \in Requests |-> NoObservation]
    /\ left = reference_data
    /\ phishing_model = modelFile[reference_data_path]
    /\ torn_reads = {}

\* web/app.py lines 61-71: a request arrives and its thread calls process_batch
Request(t, batch_size, drift_type, draw) ==
    /\ pc[t] = "idle"
    /\ Enter(t, batch_size, drift_type, draw)

\* web/app.py lines 27-34: a process of the application starts and loads the
\* model beside the configured reference; any exception leaves it None
LoadPhishingModel ==
    /\ phishing_model' =
          IF modelFile[reference_data_path] = Some(TruncatedPickle) THEN None
          ELSE modelFile[reference_data_path]
    /\ torn_reads' = torn_reads \cup TornModel(reference_data_path)
    /\ UNCHANGED << reference_data_path, refFile, modelFile, reference_data, detector,
                    pc, new_data, clf, result, seen, left >>

\* what answers a request to /api/predict: the URL validator (lines 121-147),
\* the reputation service (lines 151-185) or the classifier (lines 187-215)
PredictMethods == { "URL Validation (Unreachable)", "SERQ API", "ML Model" }

\* web/app.py lines 106-220: a request to /api/predict; the prediction and
\* the probability of the "ML Model" answer are those of the module-level
\* phishing_model, which no statement of the handler assigns
Predict(t, method) ==
    /\ pc[t] = "idle"
    /\ result' = [result EXCEPT ![t] =
                    IF IsNone(phishing_model)
                    THEN Some([kind |-> "error", error |-> "Model not loaded"])
                    ELSE Some([kind |-> "prediction",
                               method |-> method,
                               model |-> IF method = "ML Model"
                                         THEN phishing_model ELSE None])]
    /\ pc' = [pc EXCEPT ![t] = "returned"]
    /\ UNCHANGED << reference_data_path, refFile, modelFile, reference_data, detector,
                    new_data, clf, seen, left, phishing_model, torn_reads >>

NextWeb ==
    \/ \E t \in Requests, k \in RequestDriftTypes, draw \in RequestDraws :
          Request(t, BatchRows, k, draw)
    \/ \E t \in Requests : Detect(t)
    \/ \E t \in Requests, fit \in FitOutcomes : RetrainFit(t, fit)
    \/ \E t \in Requests, io \in IoOutcomes : RetrainDumpOpen(t, io)
    \/ \E t \in Requests, io \in IoOutcomes : RetrainDump(t, io)
    \/ \E t \in Requests, io \in IoOutcomes : RetrainToCsvOpen(t, io)
    \/ \E t \in Requests, io \in IoOutcomes : RetrainToCsv(t, io)
    \/ \E t \in Requests : Reload(t)
    \/ \E t \in Requests, method \in PredictMethods : Predict(t, method)
    \/ LoadPhishingModel

SpecWeb == InitWeb /\ [][NextWeb]_vars

(***************************************************************************)
(* Properties.                                                             *)
(***************************************************************************)
Res(t) == Get(result[t])
IsCycle(t) == IsSome(result[t]) /\ Res(t).kind = "cycle"
HasReturned(t) == pc[t] = "returned" /\ IsSome(result[t])
BatchFeatures(t) == DropColumn(Get(new_data[t]), Label)
DeclaredFeatures == SeqRange(numerical_features) \cup SeqRange(categorical_features)
MissingDeclared(reference, batch) ==
    \E f \in DeclaredFeatures : f \notin Columns(reference) \/ f \notin Columns(batch)
Significance == << 1, 20 >>

\* the references train_model can save, and the one placed by hand
SeededReferences ==
    { read_csv(Get(SavedByTrain[real][present].ref)) : real \in BOOLEAN, present \in BOOLEAN }
    \cup { read_csv(ForeignReference) }

\* C1: after a call in which drift was detected and retrain_model ran to the
\* end of its try block, the Monitor holds the feature columns of that call's
\* batch, whatever reference_data_path it was configured with.
C1_ReferenceIsBatchFeatures ==
    \A t \in Callers :
        (HasReturned(t) /\ seen[t].retrain = "completed")
            => reference_data = Some(BatchFeatures(t))

\* C2: a call in which drift was detected and retrain_model failed returns
\* drift_detected = TRUE and retrained = FALSE.
C2_FailedRetrainNotReportedRetrained ==
    \A t \in Callers :
        (HasReturned(t) /\ IsCycle(t) /\ seen[t].retrain = "failed")
            => (Res(t).drift_detected /\ ~Res(t).retrained)

\* C3: when retrain_model failed, at whatever step, the persisted model, the
\* persisted reference and the reference the Monitor holds are the same when
\* the call returns as they were before it.
C3_FailedRetrainChangesNothing ==
    \A t \in Callers :
        (HasReturned(t) /\ seen[t].retrain = "failed")
            => /\ seen[t].model_after = seen[t].model_before
               /\ seen[t].ref_after = seen[t].ref_before
               /\ seen[t].held_after = seen[t].used

\* C4: detection compares the batch against the reference the previous call
\* left (the reference loaded from disk when the Monitor had none), the
\* Monitor holds that same reference when detection ends, and detection
\* leaves the batch as it was.
C4_DetectionUsesReferenceLeftByPreviousCall ==
    \A t \in Callers :
        seen[t].detected =>
            /\ seen[t].held_at_start = seen[t].left_by_prev
            /\ seen[t].loaded => IsNone(seen[t].left_by_prev)
            /\ seen[t].used =
                  IF seen[t].loaded
                  THEN Some(read_csv(Get(seen[t].ref_before[reference_data_path])))
                  ELSE seen[t].left_by_prev
            /\ seen[t].held_at_detect = seen[t].used
            /\ seen[t].batch_after = new_data[t]

\* C4 witness: detection ran against a reference that an earlier call's
\* retrain put in place.
C4_Witness ==
    \E t \in Callers :
        /\ seen[t].detected
        /\ ~seen[t].loaded
        /\ IsSome(seen[t].used)
        /\ Get(seen[t].used) \notin SeededReferences

\* C5: retrain_model is called exactly in the calls whose detection returned
\* drift_detected = TRUE, after detection and with the call's labeled batch;
\* a result with retrained = TRUE has drift_detected = TRUE.
C5_RetrainExactlyOnDrift ==
    \A t \in Callers :
        /\ seen[t].retrain # "not_called" =>
              /\ seen[t].retrain_after_detect
              /\ seen[t].flagged
              /\ IsCycle(t) => Res(t).drift_detected
              /\ seen[t].retrain_arg = new_data[t]
              /\ Label \in Columns(Get(seen[t].retrain_arg))
        /\ (HasReturned(t) /\ seen[t].flagged) => seen[t].retrain # "not_called"
        /\ (HasReturned(t) /\ IsCycle(t)) =>
              (Res(t).drift_detected <=> seen[t].retrain # "not_called")
        /\ (IsCycle(t) /\ Res(t).retrained) => Res(t).drift_detected

\* C5 witness: a call that detected drift, ran retrain_model to its end and
\* returned retrained = TRUE.
C5_Witness ==
    \E t \in Callers :
        HasReturned(t) /\ IsCycle(t) /\ Res(t).retrained /\ seen[t].retrain = "completed"

\* C6: the global drift_detected of a returned report is the OR of the
\* feature verdicts.
C6_GlobalIsOrOfVerdicts ==
    \A t \in Callers :
        IsCycle(t) =>
            (Res(t).drift_detected <=>
                \E f \in DOMAIN Res(t).drift_report : Res(t).drift_report[f].drift_detected)

\* C6 witness: a report in which one feature drifted and a later one did not.
C6_Witness ==
    \E t \in Callers :
        /\ IsCycle(t)
        /\ Res(t).drift_detected
        /\ Res(t).drift_report["has_ip_address"].drift_detected
        /\ ~Res(t).drift_report["https_token"].drift_detected

\* p-values a test can report, the threshold and the inconclusive 1.0 among them
ProbePValues == { << 0, 1 >>, << 1, 200 >>, << 2, 70 >>, << 49, 1000 >>, << 1, 20 >>,
                  << 5, 100 >>, << 51, 1000 >>, << 3, 40 >>, << 1, 4 >>, << 1, 1 >> }

VerdictsFollowThreshold ==
    \A test \in {"KS", "Chi-Square"}, p \in ProbePValues :
        /\ Verdict(test, p).drift_detected <=> PLess(p, Significance)
        /\ Verdict(test, p).p_value = p

\* C7: every verdict, KS or Chi-Square, has drift_detected = (p_value < 0.05),
\* strictly: p_value = 0.05 and the inconclusive 1.0 are not drift.
C7_VerdictIsStrictThreshold ==
    /\ (\A t \in Callers : pc[t] = "idle") =>
          /\ VerdictsFollowThreshold
          /\ ~Verdict("KS", Significance).drift_detected
          /\ ~Verdict("Chi-Square", One).drift_detected
    /\ \A t \in Callers :
          IsCycle(t) =>
              \A f \in DOMAIN Res(t).drift_report :
                  LET v == Res(t).drift_report[f]
                  IN  /\ v.drift_detected <=> PLess(v.p_value, Significance)
                      /\ v.test = IF f \in SeqRange(numerical_features)
                                  THEN "KS" ELSE "Chi-Square"

\* C7 witness: a report with a KS verdict below the threshold and a
\* Chi-Square verdict of exactly 1.0.
C7_Witness ==
    \E t \in Callers :
        /\ IsCycle(t)
        /\ Res(t).drift_report["url_length"].drift_detected
        /\ PLess(Res(t).drift_report["url_length"].p_value, Significance)
        /\ Res(t).drift_report["https_token"].p_value = One
        /\ ~Res(t).drift_report["https_token"].drift_detected

\* C8: every feature of the reference's schema is a key of the report.
C8_ReportCoversReferenceSchema ==
    \A t \in Callers :
        IsCycle(t) => DOMAIN Res(t).drift_report = Columns(Get(seen[t].used))

\* frames with and without each declared feature, and one with more features
ProbeFrames ==
    LET full == DropColumn(generate_data(BatchRows, "none", Seed42Draw), Label)
    IN  { full, DropColumn(process_dataset(UrlDataset, TrainRows), Label) }
        \cup { DropColumn(full, f) : f \in DeclaredFeatures }

MissingFeatureRaises ==
    \A reference \in ProbeFrames, batch \in ProbeFrames :
        MissingDeclared(reference, batch)
            => detect_drift(reference, batch) = [exc |-> "KeyError", value |-> None]

\* C9: with a declared feature missing from the reference or the batch,
\* detect_drift raises and returns no report; process_batch then ends by
\* that exception, with retrain_model not called and the Monitor's
\* reference and the files as they were.  (The first conjunct does not depend
\* on the state; it is evaluated in the states no call has left yet.)
C9_MissingFeatureAbortsCycle ==
    /\ (\A t \in Callers : pc[t] = "idle") => MissingFeatureRaises
    /\ \A t \in Callers :
          (seen[t].detected /\ MissingDeclared(Get(seen[t].used), BatchFeatures(t)))
              => /\ HasReturned(t)
                 /\ Res(t).kind = "raised"
                 /\ seen[t].retrain = "not_called"
                 /\ seen[t].held_after = seen[t].used
                 /\ reference_data = seen[t].used
                 /\ detector = seen[t].used
                 /\ seen[t].ref_after = seen[t].ref_before
                 /\ seen[t].model_after = seen[t].model_before

\* C9 witness: a call ended by the KeyError of a missing declared feature.
C9_Witness ==
    \E t \in Callers :
        /\ HasReturned(t)
        /\ seen[t].detected
        /\ MissingDeclared(Get(seen[t].used), BatchFeatures(t))
        /\ Res(t) = Raised("KeyError")

\* C10: when the feature sets of the reference and the batch differ,
\* detection ends by an exception.
C10_DifferentSchemasRaise ==
    \A t \in Callers :
        (seen[t].detected /\ Columns(Get(seen[t].used)) # Columns(BatchFeatures(t)))
            => Res(t).kind = "raised"

\* the categories with a nonzero count in the reference or in the batch
Support(ref, new) == SeqRange(ref) \cup SeqRange(new)

\* the count table of two binary columns with both categories supported
TableOf(ref, new) ==
    LET lo == CHOOSE v \in Support(ref, new) : \A w \in Support(ref, new) : v <= w
        hi == CHOOSE v \in Support(ref, new) : \A w \in Support(ref, new) : w <= v
    IN  << << CountEq(ref, lo), CountEq(ref, hi) >>,
           << CountEq(new, lo), CountEq(new, hi) >> >>

\* the verdict the claim expects for a categorical column
ExpectedCategorical(ref, new, got) ==
    IF Cardinality(Support(ref, new)) < 2
    THEN got = [exc |-> "",
                verdict |-> Some([test |-> "Chi-Square", p_value |-> One,
                                  drift_detected |-> FALSE])]
    ELSE /\ got.exc = chi2_contingency(TableOf(ref, new)).exc
         /\ got.exc = "" =>
               /\ Get(got.verdict).test = "Chi-Square"
               /\ Get(got.verdict).p_value = chi2_contingency(TableOf(ref, new)).p_value

\* binary columns with no, one and two categories
ProbeColumns ==
    { << >>, << 0 >>, << 1 >>, << 0, 1 >>, << 0, 0, 0, 0 >>, << 1, 1, 1, 1 >>,
      << 0, 0, 1, 1 >> }

InconclusiveOnProbes ==
    \A ref \in ProbeColumns, new \in ProbeColumns :
        \A k \in 1..Len(categorical_features) :
            LET f == categorical_features[k]
            IN  ExpectedCategorical(ref, new,
                    CategoricalVerdict([c \in {f} |-> ref], [c \in {f} |-> new], f))

\* C11: for a categorical feature with fewer than 2 categories of nonzero
\* total count, detect_drift records Chi-Square, p_value 1.0, no drift, and
\* does not raise; with 2 categories the recorded p_value is the one of
\* chi2_contingency on the count table.  (The first conjunct does not depend
\* on the state; it is evaluated in the states no call has left yet.)
C11_InconclusiveCategoricalIsNoDrift ==
    /\ (\A t \in Callers : pc[t] = "idle") => InconclusiveOnProbes
    /\ \A t \in Callers :
          IsCycle(t) =>
              \A k \in 1..Len(categorical_features) :
                  LET f == categorical_features[k]
                  IN  ExpectedCategorical(Get(seen[t].used)[f], BatchFeatures(t)[f],
                          [exc |-> "", verdict |-> Some(Res(t).drift_report[f])])

\* C11 witness: a report with one categorical feature of a single category
\* (p_value 1.0) and one of two categories on which the test gave less.
C11_Witness ==
    \E t \in Callers :
        /\ IsCycle(t)
        /\ \E f, g \in SeqRange(categorical_features) :
              /\ Cardinality(Support(Get(seen[t].used)[f], BatchFeatures(t)[f])) < 2
              /\ Res(t).drift_report[f].p_value = One
              /\ Cardinality(Support(Get(seen[t].used)[g], BatchFeatures(t)[g])) = 2
              /\ Res(t).drift_report[g].p_value # One

\* the call of t began with no detector and no file at reference_data_path
BeganNotReadyWithoutFile(t) ==
    /\ pc[t] # "idle"
    /\ seen[t].loaded
    /\ IsNone(seen[t].ref_before[reference_data_path])

\* C12: a call made while no reference is loaded and the reference file is
\* absent returns the error result; no batch was requested, no detection
\* and no retrain ran, the files are as they were and the Monitor still has
\* no reference and no detector.
C12_NotReadyWithoutFileReturnsError ==
    \A t \in Callers :
        BeganNotReadyWithoutFile(t) =>
            /\ HasReturned(t)
            /\ Res(t).kind = "error"
            /\ "error" \in DOMAIN Res(t)
            /\ IsNone(new_data[t])
            /\ ~seen[t].detected
            /\ seen[t].retrain = "not_called"
            /\ seen[t].ref_after = seen[t].ref_before
            /\ seen[t].model_after = seen[t].model_before
            /\ IsNone(seen[t].held_after)
            /\ IsNone(reference_data)
            /\ IsNone(detector)

\* C12 witness: such a call has returned its error result.
C12_Witness ==
    \E t \in Callers :
        BeganNotReadyWithoutFile(t) /\ HasReturned(t) /\ Res(t) = ErrorResult

\* the call of t began with no detector and a readable file at reference_data_path
BeganNotReadyWithFile(t) ==
    /\ pc[t] # "idle"
    /\ seen[t].loaded
    /\ IsSome(seen[t].ref_before[reference_data_path])
    /\ read_csv_exc(Get(seen[t].ref_before[reference_data_path])) = ""

\* detect_drift ended by an exception: a declared feature is missing (C9)
\* or the batch is empty
DetectionRaised(t) ==
    /\ seen[t].detected
    /\ seen[t].retrain = "not_called"
    /\ \/ MissingDeclared(Get(seen[t].used), BatchFeatures(t))
       \/ NumRows(BatchFeatures(t)) = 0

\* the reload after retrain_model ended by an exception: to_csv had failed
\* after emptying the file the Monitor reads
ReloadRaised(t) ==
    /\ seen[t].retrain = "failed"
    /\ seen[t].failed_at = "to_csv"
    /\ seen[t].ref_after[reference_data_path] = Some(TruncatedCsv)

C14_ErrorsAreReturnedNotRaised ==
    \A t \in Callers :
        HasReturned(t) =>
            /\ Res(t).kind # "raised"
            /\ Res(t).kind # "cycle" => "error" \in DOMAIN Res(t)

\* C15: retrain_model ends by returning to process_batch whatever fails
\* inside it, and a call in which drift was detected returns a cycle result.
C15_DriftCallReturnsCycleResult ==
    \A t \in Callers :
        /\ seen[t].retrain = "failed" => pc[t] \in {"reload", "returned"}
        /\ (HasReturned(t) /\ seen[t].flagged) => Res(t).kind = "cycle"

\* C16: when a batch was flagged and the retrain ran to its end, a next call
\* on the same batch returns drift_detected = FALSE and retrained = FALSE,
\* with no significant p_value on any feature.
C16_ReplayAfterRetrainIsNoDrift ==
    \A t \in Callers :
        (seen[t].replay /\ pc[t] \notin {"idle", "detect"}) =>
            /\ HasReturned(t)
            /\ IsCycle(t)
            /\ ~Res(t).drift_detected
            /\ ~Res(t).retrained
            /\ \A f \in DOMAIN Res(t).drift_report :
                  ~PLess(Res(t).drift_report[f].p_value, Significance)

\* when the call of t began, the file at reference_data_path held the
\* reference the Monitor compared against
FileWasHeld(t) ==
    /\ IsSome(seen[t].used)
    /\ seen[t].ref_before[reference_data_path] = Some(to_csv(Get(seen[t].used)))

\* the reload that follows a failed retrain
ReloadAfterFailure(t) ==
    /\ pc[t] = "reload"
    /\ pc'[t] = "returned"
    /\ seen[t].retrain = "failed"

C18_UnlabeledBatchFailsVisibly ==
    \A t \in Callers :
        (HasReturned(t) /\ IsSome(seen[t].retrain_arg)
                        /\ Label \notin Columns(Get(seen[t].retrain_arg)))
            => /\ Res(t).kind = "raised"
               /\ seen[t].model_after = seen[t].model_before
               /\ seen[t].ref_after = seen[t].ref_before

\* the call of t is inside retrain_model
InRetrain(t) == pc[t] \in {"retrain", "dump", "dumping", "to_csv", "writing"}

\* C19: at most one execution of retrain_model is in flight at any time,
\* also when requests to /api/process_batch overlap.  (Checked under SpecWeb.)
C19_AtMostOneRetrainInFlight ==
    \A t \in DOMAIN pc, u \in DOMAIN pc :
        (t # u /\ InRetrain(t)) => ~InRetrain(u)

\* C20: no reader of the persisted reference or model ever meets an artifact
\* that a retrain in progress has opened and not yet written.  (Checked
\* under SpecWeb.)
C20_ReadersNeverSeePartialArtifact ==
    torn_reads = {}

\* a call that went through detection and returned the result of a cycle
\* in which no feature drifted
NoDriftCycle(t) == HasReturned(t) /\ IsCycle(t) /\ ~Res(t).drift_detected

\* C22 as stated: a cycle whose detection returns drift_detected = False
\* leaves the held reference, the detector, the persisted reference and the
\* persisted model as they were when the call began.
C22_NoDriftCycleChangesNothing ==
    \A t \in Callers :
        NoDriftCycle(t) =>
            /\ seen[t].held_after = seen[t].held_at_start
            /\ seen[t].loaded => IsNone(detector)
            /\ seen[t].ref_after = seen[t].ref_before
            /\ seen[t].model_after = seen[t].model_before

\* C22 amended: a cycle whose detection returns drift_detected = False
\* leaves both files as they were and leaves the Monitor with the reference
\* it compared against, which is the one it held when the call began or, for
\* a call that began without detector, the one it loaded from the file at
\* reference_data_path; the files change during a call only inside the
\* retrain of a flagged batch, and the held reference and the detector only
\* by that load or by the reload of a flagged batch's call.
C22_NoDriftCycleKeepsComparedReference ==
    /\ [](\A t \in Callers :
            NoDriftCycle(t) =>
                /\ seen[t].ref_after = seen[t].ref_before
                /\ seen[t].model_after = seen[t].model_before
                /\ seen[t].held_after = seen[t].used
                /\ reference_data = seen[t].used
                /\ detector = seen[t].used
                /\ seen[t].used =
                      IF seen[t].loaded
                      THEN Some(read_csv(Get(seen[t].ref_before[reference_data_path])))
                      ELSE seen[t].held_at_start)
    /\ [][(refFile' # refFile \/ modelFile' # modelFile) =>
            \/ Quiet
            \/ \E t \in Callers : InRetrain(t) /\ seen[t].flagged]_vars
    /\ [][(reference_data' # reference_data \/ detector' # detector) =>
            \/ \E t \in Callers : pc[t] = "reload" /\ seen[t].flagged
            \/ Quiet /\ IsNone(detector)]_vars

\* C22 witness: a call that began without detector, loaded the reference,
\* found no drift and returned.
C22_Witness ==
    \E t \in Callers :
        /\ NoDriftCycle(t)
        /\ seen[t].loaded
        /\ IsSome(reference_data)
        /\ IsNone(seen[t].held_at_start)

\* a model and a reference in one directory that come from the same frame:
\* the reference is the CSV of the very features the model was fitted on
MatchingPair(model, ref) ==
    \/ IsNone(model) /\ IsNone(ref)
    \/ /\ IsSome(model) /\ IsSome(ref)
       /\ Get(model) # TruncatedPickle
       /\ Get(ref) = to_csv(Get(model).X)

\* C23: when a call that went through detection has returned, every
\* directory whose model and reference were a matching pair when the call
\* began holds a matching pair again, whichever statement of the retrain
\* failed.
C23_ModelAndReferenceMatch ==
    \A t \in Callers :
        (HasReturned(t) /\ seen[t].detected) =>
            \A d \in Dirs :
                MatchingPair(seen[t].model_before[d], seen[t].ref_before[d])
                    => MatchingPair(seen[t].model_after[d], seen[t].ref_after[d])

\* the call of t was given a labeled frame and met no error of its own
\* statements: fitting and both writes went through wherever it reached them
LabeledAndUndisturbed(t) ==
    /\ IsSome(seen[t].retrain_arg)
    /\ Label \in Columns(Get(seen[t].retrain_arg))
    /\ seen[t].failed_at \notin {"fit", "dump", "to_csv"}

\* C24: what retrain_model does is decided by its batch alone, not by the
\* reference persisted before: every call on a labeled batch whose fit and
\* writes are not disturbed ends the same way, with the model fitted on the
\* batch and the batch's features written, whether or not a reference
\* existed before and whatever it held.  (Checked under SpecRetrain.)
C24_RetrainDependsOnBatchOnly ==
    \A t \in Callers :
        (HasReturned(t) /\ LabeledAndUndisturbed(t)) =>
            LET batch == Get(seen[t].retrain_arg)
                X_new == DropColumn(batch, Label)
            IN  /\ seen[t].retrain = "completed"
                /\ seen[t].model_after[HardCodedDir] = Some(Fit(X_new, batch[Label]))
                /\ seen[t].ref_after[HardCodedDir] = Some(to_csv(X_new))

\* C25: between calls of process_batch the Monitor has a detector exactly
\* when it holds a reference, and the detector is bound to the reference the
\* Monitor holds, also after the reload that follows a retrain, whether the
\* reload read the file or raised.
C25_DetectorBoundToHeldReference ==
    Quiet =>
        /\ IsNone(detector) <=> IsNone(reference_data)
        /\ detector = reference_data

\* C25 witness: a call whose retrain left the reference file torn and whose
\* reload raised has ended, and the Monitor still has the detector and the
\* reference it compared against.
C25_Witness ==
    \E t \in Callers :
        /\ HasReturned(t)
        /\ Res(t).kind = "raised"
        /\ seen[t].retrain = "failed"
        /\ seen[t].failed_at = "to_csv"
        /\ IsSome(detector)
        /\ detector = seen[t].used
        /\ reference_data = seen[t].used

\* a request to /api/process_batch has returned after a retrain that ran to
\* the end of its try block
RetrainCompleted(u) == HasReturned(u) /\ seen[u].retrain = "completed"

\* C26: a request to /api/predict that arrives after a retrain has completed
\* and is answered by the classifier is answered by the model that retrain
\* persisted, not by the one loaded before it.  (Checked under SpecWeb.)
C26_PredictUsesRetrainedModel ==
    [][\A t \in DOMAIN pc, u \in DOMAIN pc :
          (/\ pc[t] = "idle"
           /\ RetrainCompleted(u)
           /\ IsSome(result'[t])
           /\ Get(result'[t]).kind = "prediction"
           /\ Get(result'[t]).method = "ML Model")
          => Get(result'[t]).model = seen[u].model_after[HardCodedDir]]_vars
==========================================================================
